---- MODULE Spec2Model ----
(***************************************************************************)
(* Model of the service dependency tools of service-topo-sort:             *)
(*   topological-sort/topological-sort.go   topoSort                       *)
(*   union-find/union-find.go               UnionFind, main                *)
(*   grouped-topo-sort/deployment-order.go  main (bucketize)               *)
(*   local-deploy.go                        main (resolve), addTransitiveDeps *)
(* Go maps are modelled as TLA+ functions (or, for map[string]bool, as the *)
(* set of keys mapped to true); a `range` over a map yields its keys in an *)
(* order the runtime chooses, which is modelled as a nondeterministic pick *)
(* among the keys not yet yielded.                                         *)
(***************************************************************************)
EXTENDS Integers, Sequences, FiniteSets, TLC

\* ------------------------------------------------------------------ bounds
NumNodes == 3
MaxEdges == 3

NodeNames == <<"A", "B", "C", "D", "E", "F", "G", "H">>
Nodes == {NodeNames[i] : i \in 1..NumNodes}

\* ------------------------------------------------------------------ helpers
Range(s) == {s[i] : i \in 1..Len(s)}

SeqsUpTo(S, n) == UNION {[1..k -> S] : k \in 0..n}

Perms(S) == {p \in [1..Cardinality(S) -> S] : Range(p) = S}

\* A lookup in a Go map[string]DependsOn: a missing key yields the zero value,
\* whose DependsOn is the empty list.
DependsOn(g, node) == IF node \in DOMAIN g THEN g[node] ELSE <<>>

\* The edges u -> v of an adjacency list (u depends on v).
Edges(g) == UNION {{<<u, g[u][i]>> : i \in 1..Len(g[u])} : u \in DOMAIN g}

\* Every name of the graph: the keys and the names inside dependency lists.
GraphNodes(g) == DOMAIN g \cup {e[2] : e \in Edges(g)}

RECURSIVE ReachFrom(_, _, _)
ReachFrom(g, frontier, seen) ==
    IF frontier = {} THEN seen
    ELSE LET next == {e[2] : e \in {d \in Edges(g) : d[1] \in frontier}} \ seen
         IN  ReachFrom(g, next, seen \cup next)

\* The names reachable from those of S by one or more edges.
Reachable(g, S) == ReachFrom(g, S, {})

HasCycle(g) == \E n \in GraphNodes(g) : n \in Reachable(g, {n})

OnCycle(g, n) == n \in Reachable(g, {n})

\* The dependency list of k read off a list of edges, in the order written.
RECURSIVE DepsIn(_, _)
DepsIn(k, edges) ==
    IF edges = <<>> THEN <<>>
    ELSE IF Head(edges)[1] = k THEN <<Head(edges)[2]>> \o DepsIn(k, Tail(edges))
    ELSE DepsIn(k, Tail(edges))

\* The position of a name in NodeNames.
Idx(n) == CHOOSE i \in 1..Len(NodeNames) : NodeNames[i] = n

\* Edge lists written service by service (the order in which the services are
\* written does not reach the map; the order inside one dependency list does).
Grouped(edges) == \A i \in 1..(Len(edges) - 1) : Idx(edges[i][1]) <= Idx(edges[i + 1][1])

EdgeLists == {edges \in SeqsUpTo(Nodes \X Nodes, MaxEdges) : Grouped(edges)}

\* The adjacency list with the given keys and edges: every adjacency list over
\* Nodes with at most MaxEdges dependency entries in all (repeated entries
\* included) is GraphOf(keys, edges) for some keys and some edge list.
GraphOf(keys, edges) ==
    [k \in keys \cup {e[1] : e \in Range(edges)} |-> DepsIn(k, edges)]

\* ------------------------------------------------------------------ state
VARIABLES
    graph,      \* topoSort: the adjacency list (map[string]DependsOn)
    pending,    \* topoSort: keys the outer range has not yielded yet
    visited,    \* topoSort: visited (keys mapped to true)
    onPath,     \* topoSort: onPath (keys mapped to true)
    result,     \* topoSort: result
    stack,      \* topoSort: stack of state{node, expanded}
    terr,       \* topoSort: node named in the cycle error, "" when none
    tpc,        \* topoSort: "range", "inner", "done" or "failed"
    parent,     \* UnionFind: uf.parent
    unions,     \* UnionFind: the pairs <<x, y>> of the calls Union(x, y) made so far
    groups,     \* UnionFind: what GetGroups returned (node -> root)
    ufpc,       \* UnionFind main: "unions" while unions are made, then "grouped"
    deploymentOrder,    \* deployment-order: deploymentOrder.DeploymentOrder (service names)
    union,      \* deployment-order: union (service name -> root), as read
    finalDeploymentOrder,   \* deployment-order: root -> services
    bidx,       \* deployment-order: index of the next entry of order
    bpc,        \* deployment-order: "loop", then "done"
    master,     \* local-deploy: master (DeploymentOrder, DependencyAdjacencyList)
    local,      \* local-deploy: local (ServiceName, DependencyOverrides)
    deploySet,  \* local-deploy: deploySet (keys mapped to true)
    forcePending,   \* local-deploy: overrideMap keys the force-deploy range has not yielded
    skipPending,    \* local-deploy: overrideMap keys the skip range has not yielded
    finalList,  \* local-deploy: finalList
    warnings,   \* local-deploy: the warnings handed to the caller with the plan
    rpc,        \* local-deploy: "root", "force", "skip", "final", "done" or "fatal"
    wgraph,     \* addTransitiveDeps: graph
    wstart,     \* addTransitiveDeps: service of the outermost call
    wset0,      \* addTransitiveDeps: set as the outermost call received it
    wset,       \* addTransitiveDeps: set
    wstack,     \* addTransitiveDeps: the calls in progress, <<service, next index of its range>>
    wvisits,    \* addTransitiveDeps: the services the function was called for, in call order
    wpc         \* addTransitiveDeps: "idle", "walk", then "returned"

topoVars == <<graph, pending, visited, onPath, result, stack, terr, tpc>>

ufVars == <<parent, unions, groups, ufpc>>

bkVars == <<deploymentOrder, union, finalDeploymentOrder, bidx, bpc>>

rsVars == <<master, local, deploySet, forcePending, skipPending, finalList, warnings, rpc>>

walkVars == <<wgraph, wstart, wset0, wset, wstack, wvisits, wpc>>

vars == <<topoVars, ufVars, bkVars, rsVars, walkVars>>

\* The empty map.
EmptyMap == [x \in {} |-> x]

\* The state of a program that is not the one under study.
TopoIdle ==
    /\ graph = EmptyMap /\ pending = {} /\ visited = {} /\ onPath = {}
    /\ result = <<>> /\ stack = <<>> /\ terr = "" /\ tpc = "idle"

UFIdle == parent = EmptyMap /\ unions = {} /\ groups = EmptyMap /\ ufpc = "idle"

BkIdle ==
    /\ deploymentOrder = <<>> /\ union = EmptyMap /\ finalDeploymentOrder = EmptyMap
    /\ bidx = 0 /\ bpc = "idle"

RsIdle ==
    /\ master = EmptyMap /\ local = EmptyMap /\ deploySet = {}
    /\ forcePending = {} /\ skipPending = {} /\ finalList = <<>> /\ warnings = <<>>
    /\ rpc = "idle"

WalkIdle ==
    /\ wgraph = EmptyMap /\ wstart = "" /\ wset0 = {} /\ wset = {}
    /\ wstack = <<>> /\ wvisits = <<>> /\ wpc = "idle"

\* ================================================================ topoSort
Frame(n, e) == [node |-> n, expanded |-> e]

\* PushDeps with the loop over the dependency list left after its first entry.
PushDepsFirstOnly(stk, deps, vis) ==
    IF deps # <<>> /\ Head(deps) \notin vis
      THEN Append(stk, Frame(Head(deps), FALSE)) ELSE stk

\* for _, dep := range graph[top.node].DependsOn { if !visited[dep] { push } }
RECURSIVE PushDeps(_, _, _)
PushDeps(stk, deps, vis) ==
    IF deps = <<>> THEN stk
    ELSE PushDeps(IF Head(deps) \notin vis THEN Append(stk, Frame(Head(deps), FALSE)) ELSE stk,
                  Tail(deps), vis)

\* PopFrame without `if visited[top.node] { continue }`.
PopFrameNoVisitedCheck(g, st) ==
    LET top  == st.stack[Len(st.stack)]
        rest == SubSeq(st.stack, 1, Len(st.stack) - 1)
    IN  IF top.expanded
          THEN [st EXCEPT !.stack = rest,
                          !.visited = @ \cup {top.node},
                          !.onPath = @ \ {top.node},
                          !.result = Append(@, top.node)]
        ELSE IF top.node \in st.onPath
          THEN [st EXCEPT !.stack = Append(rest, Frame(top.node, TRUE)),
                          !.result = <<>>,
                          !.err = top.node]
        ELSE [st EXCEPT !.stack = PushDeps(Append(rest, Frame(top.node, TRUE)),
                                           DependsOn(g, top.node), st.visited),
                        !.onPath = @ \cup {top.node}]

\* PopFrame pushing only the dependencies that are neither visited nor in
\* progress (`if !visited[dep] && !onPath[dep]`).
PopFrameSkipOnPath(g, st) ==
    LET top  == st.stack[Len(st.stack)]
        rest == SubSeq(st.stack, 1, Len(st.stack) - 1)
    IN  IF top.node \in st.visited
          THEN [st EXCEPT !.stack = rest]
        ELSE IF top.expanded
          THEN [st EXCEPT !.stack = rest,
                          !.visited = @ \cup {top.node},
                          !.onPath = @ \ {top.node},
                          !.result = Append(@, top.node)]
        ELSE IF top.node \in st.onPath
          THEN [st EXCEPT !.stack = Append(rest, Frame(top.node, TRUE)),
                          !.result = <<>>,
                          !.err = top.node]
        ELSE [st EXCEPT !.stack = PushDeps(Append(rest, Frame(top.node, TRUE)),
                                           DependsOn(g, top.node),
                                           st.visited \cup st.onPath \cup {top.node}),
                        !.onPath = @ \cup {top.node}]

\* One iteration of the inner loop `for len(stack) > 0`, on the record
\* st = [visited, onPath, result, stack, err].
PopFrame(g, st) ==
    LET top  == st.stack[Len(st.stack)]
        rest == SubSeq(st.stack, 1, Len(st.stack) - 1)
    IN  IF top.node \in st.visited
          THEN [st EXCEPT !.stack = rest]
        ELSE IF top.expanded
          THEN [st EXCEPT !.stack = rest,
                          !.visited = @ \cup {top.node},
                          !.onPath = @ \ {top.node},
                          !.result = Append(@, top.node)]
        ELSE IF top.node \in st.onPath
          THEN [st EXCEPT !.stack = Append(rest, Frame(top.node, TRUE)),
                          !.result = <<>>,
                          !.err = top.node]
        ELSE [st EXCEPT !.stack = PushDeps(Append(rest, Frame(top.node, TRUE)),
                                           DependsOn(g, top.node), st.visited),
                        !.onPath = @ \cup {top.node}]

TopoState == [visited |-> visited, onPath |-> onPath, result |-> result,
              stack |-> stack, err |-> terr]

TopoEmpty == [visited |-> {}, onPath |-> {}, result |-> <<>>,
              stack |-> <<>>, err |-> ""]

SetTopo(st) ==
    /\ visited' = st.visited
    /\ onPath' = st.onPath
    /\ result' = st.result
    /\ stack' = st.stack
    /\ terr' = st.err

TopoInit ==
    /\ \E keys \in SUBSET Nodes, edges \in EdgeLists : graph = GraphOf(keys, edges)
    /\ pending = DOMAIN graph
    /\ visited = {}
    /\ onPath = {}
    /\ result = <<>>
    /\ stack = <<>>
    /\ terr = ""
    /\ tpc = "range"
    /\ UFIdle /\ BkIdle /\ RsIdle /\ WalkIdle

\* for node := range graph { if visited[node] { continue } ...
RangeSkip ==
    /\ tpc = "range"
    /\ \E node \in pending :
        /\ node \in visited
        /\ pending' = pending \ {node}
    /\ UNCHANGED <<ufVars, bkVars, rsVars, walkVars, graph, visited, onPath, result, stack, terr, tpc>>

\* ... stack := []state{{node, false}}
RangeStart ==
    /\ tpc = "range"
    /\ \E node \in pending :
        /\ node \notin visited
        /\ pending' = pending \ {node}
        /\ stack' = <<Frame(node, FALSE)>>
    /\ tpc' = "inner"
    /\ UNCHANGED <<ufVars, bkVars, rsVars, walkVars, graph, visited, onPath, result, terr>>

TopFrame == stack[Len(stack)]

\* if visited[top.node] { continue }
PopVisited ==
    /\ tpc = "inner" /\ stack # <<>>
    /\ TopFrame.node \in visited
    /\ SetTopo(PopFrame(graph, TopoState))
    /\ UNCHANGED <<ufVars, bkVars, rsVars, walkVars, graph, pending, tpc>>

\* if top.expanded { visited, onPath, result; continue }
PopExpanded ==
    /\ tpc = "inner" /\ stack # <<>>
    /\ TopFrame.node \notin visited
    /\ TopFrame.expanded
    /\ SetTopo(PopFrame(graph, TopoState))
    /\ UNCHANGED <<ufVars, bkVars, rsVars, walkVars, graph, pending, tpc>>

\* if onPath[top.node] { return nil, cycle detected }
PopCycle ==
    /\ tpc = "inner" /\ stack # <<>>
    /\ TopFrame.node \notin visited
    /\ ~TopFrame.expanded
    /\ TopFrame.node \in onPath
    /\ SetTopo(PopFrame(graph, TopoState))
    /\ tpc' = "failed"
    /\ UNCHANGED <<ufVars, bkVars, rsVars, walkVars, graph, pending>>

\* onPath[top.node] = true; push the dependencies not yet visited
PopExpand ==
    /\ tpc = "inner" /\ stack # <<>>
    /\ TopFrame.node \notin visited
    /\ ~TopFrame.expanded
    /\ TopFrame.node \notin onPath
    /\ SetTopo(PopFrame(graph, TopoState))
    /\ UNCHANGED <<ufVars, bkVars, rsVars, walkVars, graph, pending, tpc>>

\* The inner loop ends when the stack is empty.
InnerExit ==
    /\ tpc = "inner" /\ stack = <<>>
    /\ tpc' = "range"
    /\ UNCHANGED <<ufVars, bkVars, rsVars, walkVars, graph, pending, visited, onPath, result, stack, terr>>

\* return result, nil
TopoReturn ==
    /\ tpc = "range" /\ pending = {}
    /\ tpc' = "done"
    /\ UNCHANGED <<ufVars, bkVars, rsVars, walkVars, graph, pending, visited, onPath, result, stack, terr>>

TopoNext ==
    \/ RangeSkip
    \/ RangeStart
    \/ PopVisited
    \/ PopExpanded
    \/ PopCycle
    \/ PopExpand
    \/ InnerExit
    \/ TopoReturn

Spec == TopoInit /\ [][TopoNext]_vars

\* The whole of topoSort as a function of the graph and of the order in which
\* the outer range yields the keys: [result, err].
RECURSIVE RunInner(_, _)
RunInner(g, st) ==
    IF st.stack = <<>> \/ st.err # "" THEN st ELSE RunInner(g, PopFrame(g, st))

RECURSIVE RunRange(_, _, _)
RunRange(g, order, st) ==
    IF st.err # "" \/ order = <<>> THEN st
    ELSE IF Head(order) \in st.visited THEN RunRange(g, Tail(order), st)
    ELSE RunRange(g, Tail(order),
                  RunInner(g, [st EXCEPT !.stack = <<Frame(Head(order), FALSE)>>]))

topoSort(g, order) ==
    LET st == RunRange(g, order, TopoEmpty)
    IN  [result |-> st.result, err |-> st.err]


\* =============================================================== UnionFind
MaxUnions == 3

\* Find without the path compression: the root is returned, parent is not written.
RECURSIVE FindNoCompression(_, _)
FindNoCompression(p, x) ==
    IF p[x] # x
      THEN [parent |-> p, root |-> FindNoCompression(p, p[x]).root]
      ELSE [parent |-> p, root |-> p[x]]

\* func (uf *UnionFind) Find(x string) string, as [parent, root]: the parent
\* map after the call (path compression) and the value returned.
RECURSIVE Find(_, _)
Find(p, x) ==
    IF p[x] # x
      THEN LET r == Find(p, p[x])
           IN  [parent |-> [r.parent EXCEPT ![x] = r.root], root |-> r.root]
      ELSE [parent |-> p, root |-> p[x]]

\* Union attaching rootX under rootY's parent entry the wrong way round:
\* uf.parent[y] = rootX instead of uf.parent[rootY] = rootX.
UnionOfNodeNotRoot(p, x, y) ==
    LET fx == Find(p, x)
        fy == Find(fx.parent, y)
    IN  IF fx.root # fy.root THEN [fy.parent EXCEPT ![y] = fx.root] ELSE fy.parent

\* func (uf *UnionFind) Union(x, y string): the parent map after the call.
Union(p, x, y) ==
    LET fx == Find(p, x)
        fy == Find(fx.parent, y)
    IN  IF fx.root # fy.root THEN [fy.parent EXCEPT ![fy.root] = fx.root] ELSE fy.parent

\* GetGroups reporting uf.parent[node] in place of uf.Find(node).
GetGroupsOfParent(p, order) == [parent |-> p, groups |-> [n \in Range(order) |-> p[n]]]

\* func (uf *UnionFind) GetGroups(), the range yielding the nodes in `order`:
\* [parent, groups].
RECURSIVE GetGroupsFrom(_, _, _)
GetGroupsFrom(p, order, acc) ==
    IF order = <<>> THEN [parent |-> p, groups |-> acc]
    ELSE LET f == Find(p, Head(order))
         IN  GetGroupsFrom(f.parent, Tail(order),
                           [n \in DOMAIN acc \cup {Head(order)} |->
                               IF n = Head(order) THEN f.root ELSE acc[n]])

GetGroups(p, order) == GetGroupsFrom(p, order, EmptyMap)

\* InitialiseUnionFind(nodes)
InitialiseUnionFind(nodes) == [n \in nodes |-> n]

UFInit ==
    /\ \E nodes \in SUBSET Nodes : parent = InitialiseUnionFind(nodes)
    /\ unions = {}
    /\ groups = EmptyMap
    /\ ufpc = "unions"
    /\ TopoIdle /\ BkIdle /\ RsIdle /\ WalkIdle

\* uf.Union(service, dep)
DoUnion ==
    /\ ufpc = "unions"
    /\ \E x, y \in DOMAIN parent :
        /\ Cardinality(unions \cup {<<x, y>>}) <= MaxUnions
        /\ parent' = Union(parent, x, y)
        /\ unions' = unions \cup {<<x, y>>}
    /\ UNCHANGED <<groups, ufpc, topoVars, bkVars, rsVars, walkVars>>

\* uf.Find(x)
DoFind ==
    /\ ufpc = "unions"
    /\ \E x \in DOMAIN parent : parent' = Find(parent, x).parent
    /\ UNCHANGED <<unions, groups, ufpc, topoVars, bkVars, rsVars, walkVars>>

\* groups := uf.GetGroups(), its range yielding the nodes in any order
DoGetGroups ==
    /\ ufpc = "unions"
    /\ ufpc' = "grouped"
    /\ \E order \in Perms(DOMAIN parent) :
        LET r == GetGroups(parent, order)
        IN  parent' = r.parent /\ groups' = r.groups
    /\ UNCHANGED <<unions, topoVars, bkVars, rsVars, walkVars>>

UFNext == DoUnion \/ DoFind \/ DoGetGroups

SpecUF == UFInit /\ [][UFNext]_vars


\* ======================================================== deployment-order
MaxOrder == 3

\* A lookup in a Go map[string]string: a missing key yields "".
Lookup(m, k) == IF k \in DOMAIN m THEN m[k] ELSE ""

\* A lookup in a Go map[string][]T: a missing key yields the nil slice.
Bucket(m, k) == IF k \in DOMAIN m THEN m[k] ELSE <<>>

\* The bucket update putting the service in front of its bucket.
PrependToBucket(m, root, service) ==
    [r \in DOMAIN m \cup {root} |->
        IF r = root THEN <<service>> \o Bucket(m, root) ELSE m[r]]

\* finalDeploymentOrder[root] = append(finalDeploymentOrder[root], service)
AppendToBucket(m, root, service) ==
    [r \in DOMAIN m \cup {root} |->
        IF r = root THEN Append(Bucket(m, root), service) ELSE m[r]]

BkInit ==
    /\ deploymentOrder \in SeqsUpTo(Nodes, MaxOrder)
    /\ \E keys \in SUBSET Nodes : union \in [keys -> Nodes]
    /\ finalDeploymentOrder = EmptyMap
    /\ bidx = 1
    /\ bpc = "loop"
    /\ TopoIdle /\ UFIdle /\ RsIdle /\ WalkIdle

\* One iteration of `for _, service := range deploymentOrder.DeploymentOrder`.
BucketStep ==
    /\ bpc = "loop" /\ bidx <= Len(deploymentOrder)
    /\ LET serviceName == deploymentOrder[bidx]
           root == Lookup(union, serviceName)
       IN  finalDeploymentOrder' = AppendToBucket(finalDeploymentOrder, root, serviceName)
    /\ bidx' = bidx + 1
    /\ UNCHANGED <<deploymentOrder, union, bpc, topoVars, ufVars, rsVars, walkVars>>

\* The loop is over; the buckets are printed.
BucketDone ==
    /\ bpc = "loop" /\ bidx > Len(deploymentOrder)
    /\ bpc' = "done"
    /\ UNCHANGED <<deploymentOrder, union, finalDeploymentOrder, bidx, topoVars, ufVars, rsVars, walkVars>>

BkNext == BucketStep \/ BucketDone

SpecBk == BkInit /\ [][BkNext]_vars


\* ============================================================ local-deploy
MaxAdjEdges == 2
MaxOverrides == 2

\* The master plan's entry of a service, as the sorter writes it: the fields
\* of the service and its dependency list.
DeployableService(n, g) ==
    [ServiceName |-> n, Repository |-> "repo", Manifest |-> "manifest",
     DevLocal |-> "devlocal", DependsOn |-> DependsOn(g, n), Branch |-> "main"]

\* The values an override gives for branch, manifestPath and devLocal.
OverrideValues == {""}

Overrides ==
    [ServiceName : Nodes, Branch : OverrideValues, ManifestPath : OverrideValues,
     DevLocal : OverrideValues, Skip : BOOLEAN, ForceDeploy : BOOLEAN]

\* The sequences without repetition over the subsets of S.
Arrangements(S) == UNION {Perms(T) : T \in SUBSET S}

\* BuildOverrideMap keeping the first directive of a name.
RECURSIVE BuildOverrideMapFirstWins(_, _)
BuildOverrideMapFirstWins(list, acc) ==
    IF list = <<>> THEN acc
    ELSE BuildOverrideMapFirstWins(Tail(list),
            [k \in DOMAIN acc \cup {Head(list).ServiceName} |->
                IF k \in DOMAIN acc THEN acc[k] ELSE Head(list)])

\* for _, o := range local.DependencyOverrides { overrideMap[o.ServiceName] = o }
RECURSIVE BuildOverrideMap(_, _)
BuildOverrideMap(list, acc) ==
    IF list = <<>> THEN acc
    ELSE BuildOverrideMap(Tail(list),
            [k \in DOMAIN acc \cup {Head(list).ServiceName} |->
                IF k = Head(list).ServiceName THEN Head(list) ELSE acc[k]])

overrideMap == BuildOverrideMap(local.DependencyOverrides, EmptyMap)

\* The keys of serviceMap: the names of the master plan's entries.
serviceMap == {master.DeploymentOrder[i].ServiceName : i \in 1..Len(master.DeploymentOrder)}

\* addTransitiveDeps without the recursive call: the direct dependencies only.
addDirectDeps(service, g, set) == set \cup Range(DependsOn(g, service))

\* func addTransitiveDeps(service, graph, set): the set after the call.
RECURSIVE addTransitiveDeps(_, _, _)
RECURSIVE AddDeps(_, _, _)
AddDeps(deps, g, set) ==
    IF deps = <<>> THEN set
    ELSE IF Head(deps) \notin set
      THEN AddDeps(Tail(deps), g, addTransitiveDeps(Head(deps), g, set \cup {Head(deps)}))
      ELSE AddDeps(Tail(deps), g, set)

addTransitiveDeps(service, g, set) == AddDeps(DependsOn(g, service), g, set)

\* ApplyOverride taking the override's fields whenever there is an override.
ApplyOverrideAlways(svc, omap) ==
    LET hasOverride == svc.ServiceName \in DOMAIN omap
        override == omap[svc.ServiceName]
    IN  [ServiceName |-> svc.ServiceName,
         Repository  |-> svc.Repository,
         Branch      |-> IF hasOverride THEN override.Branch ELSE svc.Branch,
         Manifest    |-> IF hasOverride THEN override.ManifestPath ELSE svc.Manifest,
         DevLocal    |-> IF hasOverride THEN override.DevLocal ELSE svc.DevLocal,
         DependsOn   |-> svc.DependsOn]

\* The entry of the final list made from a master entry (Step 4, lines 124-151).
ApplyOverride(svc, omap) ==
    LET hasOverride == svc.ServiceName \in DOMAIN omap
        override == omap[svc.ServiceName]
    IN  [ServiceName |-> svc.ServiceName,
         Repository  |-> svc.Repository,
         Branch      |-> IF hasOverride /\ override.Branch # "" THEN override.Branch ELSE svc.Branch,
         Manifest    |-> IF hasOverride /\ override.ManifestPath # ""
                           THEN override.ManifestPath ELSE svc.Manifest,
         DevLocal    |-> IF hasOverride /\ override.DevLocal # "" THEN override.DevLocal ELSE svc.DevLocal,
         DependsOn   |-> svc.DependsOn]

\* BuildFinalList ranging over the master plan from its last entry to its first.
RECURSIVE BuildFinalListReversed(_, _, _)
BuildFinalListReversed(plan, set, omap) ==
    IF plan = <<>> THEN <<>>
    ELSE IF Head(plan).ServiceName \in set
      THEN Append(BuildFinalListReversed(Tail(plan), set, omap), ApplyOverride(Head(plan), omap))
      ELSE BuildFinalListReversed(Tail(plan), set, omap)

\* BuildFinalList keeping a service only when the set holds its dependencies too.
RECURSIVE BuildFinalListCascade(_, _, _)
BuildFinalListCascade(plan, set, omap) ==
    IF plan = <<>> THEN <<>>
    ELSE IF Head(plan).ServiceName \in set /\ Range(Head(plan).DependsOn) \subseteq set
      THEN <<ApplyOverride(Head(plan), omap)>> \o BuildFinalListCascade(Tail(plan), set, omap)
      ELSE BuildFinalListCascade(Tail(plan), set, omap)

\* for _, svc := range master.DeploymentOrder { if deploySet[svc.ServiceName] { append } }
RECURSIVE BuildFinalList(_, _, _)
BuildFinalList(plan, set, omap) ==
    IF plan = <<>> THEN <<>>
    ELSE IF Head(plan).ServiceName \in set
      THEN <<ApplyOverride(Head(plan), omap)>> \o BuildFinalList(Tail(plan), set, omap)
      ELSE BuildFinalList(Tail(plan), set, omap)

\* The root check left out: every root service passes.
RootExistsUnchecked(root, plan) == TRUE

\* _, exists := serviceMap[root]
RootExists(root, plan) == \E i \in 1..Len(plan) : plan[i].ServiceName = root

\* The body of the force-deploy range (lines 107-110).
ForceDeploy(override, g, set) ==
    IF override.ForceDeploy
      THEN addTransitiveDeps(override.ServiceName, g, set \cup {override.ServiceName})
      ELSE set

\* ApplySkip giving way to a force-deploy of the same directive.
ApplySkipUnlessForced(override, set) ==
    IF override.Skip /\ ~override.ForceDeploy THEN set \ {override.ServiceName} ELSE set

\* The body of the skip range (lines 115-117).
ApplySkip(override, set) ==
    IF override.Skip THEN set \ {override.ServiceName} ELSE set

\* The force-deploy range run to its end, yielding the keys in the given order.
RECURSIVE ForceLoop(_, _, _, _)
ForceLoop(omap, order, g, set) ==
    IF order = <<>> THEN set
    ELSE ForceLoop(omap, Tail(order), g, ForceDeploy(omap[Head(order)], g, set))

\* The skip range run to its end, yielding the keys in the given order.
RECURSIVE SkipLoop(_, _, _)
SkipLoop(omap, order, set) ==
    IF order = <<>> THEN set
    ELSE SkipLoop(omap, Tail(order), ApplySkip(omap[Head(order)], set))

\* The keys of a map, in name order.
KeysInNameOrder(m) ==
    CHOOSE s \in Perms(DOMAIN m) : \A i \in 1..(Len(s) - 1) : Idx(s[i]) < Idx(s[i + 1])

\* main from Step 1 to the final list, for a root service the master plan
\* has, both ranges yielding the keys of overrideMap in name order.
Resolve(m, loc) ==
    LET omap == BuildOverrideMap(loc.DependencyOverrides, EmptyMap)
        g == m.DependencyAdjacencyList
        keys == KeysInNameOrder(omap)
        rooted == addTransitiveDeps(loc.ServiceName, g, {loc.ServiceName})
        forced == ForceLoop(omap, keys, g, rooted)
    IN  BuildFinalList(m.DeploymentOrder, SkipLoop(omap, keys, forced), omap)

RsInit ==
    /\ \E names \in Arrangements(Nodes), edges \in {e \in EdgeLists : Len(e) <= MaxAdjEdges} :
        LET g == GraphOf({}, edges)
        IN  master = [DeploymentOrder |-> [i \in 1..Len(names) |-> DeployableService(names[i], g)],
                      DependencyAdjacencyList |-> g]
    /\ \E root \in Nodes, overrides \in SeqsUpTo(Overrides, MaxOverrides) :
        local = [ServiceName |-> root, DependencyOverrides |-> overrides]
    /\ deploySet = {}
    /\ forcePending = {}
    /\ skipPending = {}
    /\ finalList = <<>>
    /\ warnings = <<>>
    /\ rpc = "root"
    /\ TopoIdle /\ UFIdle /\ BkIdle /\ WalkIdle

\* The overrides that replace fields: each of branch, manifestPath and
\* devLocal is left empty or given a value of its own.
FieldOverrides ==
    [ServiceName : Nodes, Branch : {"", "feature"}, ManifestPath : {"", "local.yaml"},
     DevLocal : {"", "./dev"}, Skip : BOOLEAN, ForceDeploy : BOOLEAN]

\* The adjacency list in which each service depends on the next in name order.
ChainGraph ==
    GraphOf({}, [i \in 1..(NumNodes - 1) |-> <<NodeNames[i], NodeNames[i + 1]>>])

\* The runs of main over the chain of services, with overrides that replace
\* fields.
RsFieldsInit ==
    /\ \E names \in Arrangements(Nodes) :
        master = [DeploymentOrder |->
                      [i \in 1..Len(names) |-> DeployableService(names[i], ChainGraph)],
                  DependencyAdjacencyList |-> ChainGraph]
    /\ \E root \in Nodes, overrides \in SeqsUpTo(FieldOverrides, MaxOverrides) :
        local = [ServiceName |-> root, DependencyOverrides |-> overrides]
    /\ deploySet = {}
    /\ forcePending = {}
    /\ skipPending = {}
    /\ finalList = <<>>
    /\ warnings = <<>>
    /\ rpc = "root"
    /\ TopoIdle /\ UFIdle /\ BkIdle /\ WalkIdle

\* if _, exists := serviceMap[root]; !exists { log.Fatalf(...) }
RootMissing ==
    /\ rpc = "root"
    /\ ~RootExists(local.ServiceName, master.DeploymentOrder)
    /\ rpc' = "fatal"
    /\ UNCHANGED <<master, local, deploySet, forcePending, skipPending, finalList,
                   topoVars, ufVars, bkVars, walkVars, warnings>>

\* Step 1: deploySet[root] = true; addTransitiveDeps(root, graph, deploySet)
RootClosure ==
    /\ rpc = "root"
    /\ RootExists(local.ServiceName, master.DeploymentOrder)
    /\ deploySet' = addTransitiveDeps(local.ServiceName, master.DependencyAdjacencyList,
                                      {local.ServiceName})
    /\ forcePending' = DOMAIN overrideMap
    /\ rpc' = "force"
    /\ UNCHANGED <<master, local, skipPending, finalList, topoVars, ufVars, bkVars, walkVars, warnings>>

\* Step 2: one iteration of `for _, override := range overrideMap`
ForceStep ==
    /\ rpc = "force"
    /\ \E k \in forcePending :
        LET override == overrideMap[k]
        IN  /\ forcePending' = forcePending \ {k}
            /\ deploySet' = ForceDeploy(override, master.DependencyAdjacencyList, deploySet)
    /\ UNCHANGED <<master, local, skipPending, finalList, rpc, topoVars, ufVars, bkVars, walkVars, warnings>>

ForceDone ==
    /\ rpc = "force" /\ forcePending = {}
    /\ skipPending' = DOMAIN overrideMap
    /\ rpc' = "skip"
    /\ UNCHANGED <<master, local, deploySet, forcePending, finalList, topoVars, ufVars, bkVars, walkVars, warnings>>

\* Step 3: one iteration of `for _, override := range overrideMap`
SkipStep ==
    /\ rpc = "skip"
    /\ \E k \in skipPending :
        LET override == overrideMap[k]
        IN  /\ skipPending' = skipPending \ {k}
            /\ deploySet' = ApplySkip(override, deploySet)
    /\ UNCHANGED <<master, local, forcePending, finalList, rpc, topoVars, ufVars, bkVars, walkVars, warnings>>

\* Step 4: the final list in master order
BuildFinal ==
    /\ rpc = "skip" /\ skipPending = {}
    /\ finalList' = BuildFinalList(master.DeploymentOrder, deploySet, overrideMap)
    /\ rpc' = "done"
    /\ UNCHANGED <<master, local, deploySet, forcePending, skipPending, topoVars, ufVars, bkVars, walkVars, warnings>>

RsNext == RootMissing \/ RootClosure \/ ForceStep \/ ForceDone \/ SkipStep \/ BuildFinal

SpecRs == RsInit /\ [][RsNext]_vars

SpecRsFields == RsFieldsInit /\ [][RsNext]_vars

\* ------------------------------------------------ addTransitiveDeps, by steps
\* The sets main passes to addTransitiveDeps for the service `start`: the
\* root alone (lines 102-103), or the deploy-set of the earlier calls, which
\* holds every dependency of its members, with `start` added (lines 108-109).
CallSets(g, start) ==
    {{start}} \cup
    {seeds \cup Reachable(g, seeds) \cup {start} : seeds \in SUBSET Nodes \ {{}}}

WalkFrame(service, i) == [service |-> service, i |-> i]

\* set[dep] = true left out.
MarkNothing(set, dep) == set

\* set[dep] = true
Mark(set, dep) == set \cup {dep}

WalkInit ==
    /\ \E edges \in EdgeLists : wgraph = GraphOf({}, edges)
    /\ wstart \in Nodes
    /\ wset0 \in CallSets(wgraph, wstart)
    /\ wset = wset0
    /\ wstack = <<WalkFrame(wstart, 1)>>
    /\ wvisits = <<wstart>>
    /\ wpc = "walk"
    /\ TopoIdle /\ UFIdle /\ BkIdle /\ RsIdle

WalkTop == wstack[Len(wstack)]

\* The range of the call on top has yielded dep, the next entry of
\* graph[service].
WalkYields(dep) ==
    /\ wpc = "walk"
    /\ WalkTop.i <= Len(DependsOn(wgraph, WalkTop.service))
    /\ dep = DependsOn(wgraph, WalkTop.service)[WalkTop.i]

WalkAdvanced == [wstack EXCEPT ![Len(wstack)].i = @ + 1]

\* if !set[dep] { set[dep] = true; addTransitiveDeps(dep, graph, set) }
WalkEnter ==
    \E dep \in Nodes :
        /\ WalkYields(dep)
        /\ dep \notin wset
        /\ wset' = Mark(wset, dep)
        /\ wstack' = Append(WalkAdvanced, WalkFrame(dep, 1))
        /\ wvisits' = Append(wvisits, dep)
        /\ UNCHANGED <<wgraph, wstart, wset0, wpc, topoVars, ufVars, bkVars, rsVars>>

\* set[dep] holds already: the range goes on.
WalkSeen ==
    \E dep \in Nodes :
        /\ WalkYields(dep)
        /\ dep \in wset
        /\ wstack' = WalkAdvanced
        /\ UNCHANGED <<wgraph, wstart, wset0, wset, wvisits, wpc, topoVars, ufVars, bkVars, rsVars>>

\* The range of the call on top is over: the call returns.
WalkReturn ==
    /\ wpc = "walk"
    /\ WalkTop.i > Len(DependsOn(wgraph, WalkTop.service))
    /\ wstack' = SubSeq(wstack, 1, Len(wstack) - 1)
    /\ wpc' = IF Len(wstack) = 1 THEN "returned" ELSE "walk"
    /\ UNCHANGED <<wgraph, wstart, wset0, wset, wvisits, topoVars, ufVars, bkVars, rsVars>>

WalkNext == WalkEnter \/ WalkSeen \/ WalkReturn

SpecWalk == WalkInit /\ [][WalkNext]_vars

\* ---------------------------------------------------------- topoSort claims
\* a comes before b in s.
Before(s, a, b) == \E i, j \in 1..Len(s) : i < j /\ s[i] = a /\ s[j] = b

\* C1: on an acyclic graph topoSort never fails, and the order it returns has
\* every dependency before every service that depends on it, whichever order
\* the keys are ranged over and whatever the order of the dependency lists.
C1_DependenciesFirst ==
    ~HasCycle(graph) =>
        /\ tpc # "failed"
        /\ terr = ""
        /\ tpc = "done" => \A e \in Edges(graph) : Before(result, e[2], e[1])

C1_Witness ==
    /\ tpc = "done"
    /\ ~HasCycle(graph)
    /\ Cardinality(Edges(graph)) = 3
    /\ Len(result) = 3

\* The frame about to be popped is an unexpanded frame of a node in progress.
PopsInProgress ==
    /\ tpc = "inner" /\ stack # <<>>
    /\ ~TopFrame.expanded
    /\ TopFrame.node \in onPath
    /\ TopFrame.node \notin visited

\* A number that every step of topoSort lowers: the nodes not yet expanded
\* weigh more than the frames one expansion can push, the keys still to range
\* over more than the frame and the loop entry that starting one costs.
TopoMeasure ==
    (MaxEdges + 2) * Cardinality(GraphNodes(graph) \ (onPath \cup visited))
    + Len(stack)
    + 3 * Cardinality(pending)
    + (IF tpc = "inner" THEN 1 ELSE 0)
    + (IF tpc \in {"done", "failed"} THEN 0 ELSE 1)

\* C2: on a graph with a cycle topoSort cannot return an order, and it cannot
\* run forever or stop short of returning (every step lowers TopoMeasure and
\* a step is possible until it returns), so it fails; when it fails it
\* returns no order and names a node that lies on a cycle, and it fails
\* exactly at the first pop of an unexpanded frame whose node is in progress,
\* naming that node.
C2_CycleDetected ==
    /\ [](HasCycle(graph) => tpc # "done")
    /\ [](tpc \in {"range", "inner"} => ENABLED TopoNext)
    /\ [][TopoMeasure' < TopoMeasure]_vars
    /\ [](tpc = "failed" => terr # "" /\ OnCycle(graph, terr) /\ result = <<>>)
    /\ [][PopsInProgress => tpc' = "failed" /\ terr' = TopFrame.node]_vars
    /\ [][tpc' = "failed" => PopsInProgress]_vars

C2_Witness ==
    /\ tpc = "failed"
    /\ OnCycle(graph, terr)
    /\ <<terr, terr>> \notin Edges(graph)
    /\ \E n \in GraphNodes(graph) : ~OnCycle(graph, n)
    /\ Cardinality({n \in GraphNodes(graph) : OnCycle(graph, n)}) = 2

\* C3 (as claimed): the outcome of a run is the outcome of every run on the
\* same graph, whichever order the range yields the keys in.
C3_Reproducible ==
    tpc \in {"done", "failed"} =>
        \A order \in Perms(DOMAIN graph) :
            topoSort(graph, order) = [result |-> result, err |-> terr]

\* C4: a successful topoSort returns every graph node (keys and names that
\* occur only in dependency lists) exactly once, and nothing else.
C4_EveryNodeOnce ==
    tpc = "done" =>
        /\ Range(result) = GraphNodes(graph)
        /\ Len(result) = Cardinality(GraphNodes(graph))

C4_Witness ==
    /\ tpc = "done"
    /\ GraphNodes(graph) \ DOMAIN graph # {}
    /\ \E k \in DOMAIN graph : graph[k] = <<>>
    /\ Len(result) = 3

\* ---------------------------------------------------------- UnionFind claims
\* The nodes joined to those of S by a chain of the unions in U.
RECURSIVE ClassOf(_, _)
ClassOf(U, S) ==
    LET next == S \cup {e[2] : e \in {d \in U : d[1] \in S}}
                  \cup {e[1] : e \in {d \in U : d[2] \in S}}
    IN  IF next = S THEN S ELSE ClassOf(U, next)

Connected(U, x, y) == y \in ClassOf(U, {x})

\* Find(x) == Find(y), the two calls made one after the other.
SameRoot(p, x, y) ==
    LET fx == Find(p, x)
        fy == Find(fx.parent, y)
    IN  fx.root = fy.root

\* C5: whatever unions and finds were made, Find(x) == Find(y) exactly when
\* x and y are connected by a chain of the unions made so far.
C5_FindIffConnected ==
    ufpc = "unions" =>
        \A x, y \in DOMAIN parent : SameRoot(parent, x, y) <=> Connected(unions, x, y)

C5_Witness ==
    /\ ufpc = "unions"
    /\ Cardinality(unions) = 2
    /\ \E x, y \in DOMAIN parent :
        /\ x # y /\ <<x, y>> \notin unions /\ <<y, x>> \notin unions
        /\ SameRoot(parent, x, y)
        /\ parent[x] # parent[y]

\* The partition of the nodes that a groups map describes.
Partition(g) == {{m \in DOMAIN g : g[m] = g[n]} : n \in DOMAIN g}

\* The unions made so far as undirected edges.
UEdges == {{e[1], e[2]} : e \in unions}

\* An edge {a, b} written as the call Union(a, b) or, swapped, Union(b, a).
Oriented(e, swap) ==
    LET a == CHOOSE n \in e : \A m \in e : Idx(n) <= Idx(m)
        b == CHOOSE n \in e : \A m \in e : Idx(m) <= Idx(n)
    IN  IF swap THEN <<b, a>> ELSE <<a, b>>

\* Every way of writing the edges as a sequence of Union calls.
UnionOrders ==
    {[i \in 1..Cardinality(UEdges) |-> Oriented(es[i], sw[i])] :
        es \in Perms(UEdges), sw \in [1..Cardinality(UEdges) -> BOOLEAN]}

RECURSIVE RunUnions(_, _)
RunUnions(p, calls) ==
    IF calls = <<>> THEN p
    ELSE RunUnions(Union(p, Head(calls)[1], Head(calls)[2]), Tail(calls))

\* The names of S in the order of NodeNames.
InNameOrder(S) == CHOOSE o \in Perms(S) : \A i, j \in 1..Len(o) : i < j => Idx(o[i]) < Idx(o[j])

\* GetGroups (ranging in `order`) after making the unions `calls` on freshly
\* initialised nodes.
GroupsAfter(order, calls) ==
    GetGroups(RunUnions(InitialiseUnionFind(Range(order)), calls), order).groups

\* C6: the partition GetGroups reports (after the unions were made in some
\* order, with finds in between, and with GetGroups ranging in some order)
\* is the partition reported after making the same edges' unions in any
\* other order and with the arguments of any of them swapped.
C6_PartitionOrderFree ==
    ufpc = "grouped" =>
        LET order == InNameOrder(DOMAIN parent)
            now   == Partition(groups)
        IN  \A calls \in UnionOrders : Partition(GroupsAfter(order, calls)) = now

C6_Witness ==
    /\ ufpc = "grouped"
    /\ Cardinality(UEdges) = 2
    /\ \E c \in Partition(groups) : Cardinality(c) = 3
    /\ \E calls \in UnionOrders : GroupsAfter(InNameOrder(DOMAIN parent), calls) # groups

\* --------------------------------------------------- deployment-order claims
\* The entries of s whose root under m is r, in the order of s.
RECURSIVE WithRoot(_, _, _)
WithRoot(s, m, r) ==
    IF s = <<>> THEN <<>>
    ELSE IF Lookup(m, Head(s)) = r THEN <<Head(s)>> \o WithRoot(Tail(s), m, r)
    ELSE WithRoot(Tail(s), m, r)

RECURSIVE SumLen(_, _)
SumLen(m, keys) ==
    IF keys = {} THEN 0
    ELSE LET k == CHOOSE x \in keys : TRUE IN Len(m[k]) + SumLen(m, keys \ {k})

\* C7: the buckets hold each entry of the order once, each in the bucket keyed
\* by its root (the root read from the map, "" when the map has no entry),
\* and every bucket lists its services in the order of the master order.
C7_BucketsStable ==
    bpc = "done" =>
        /\ DOMAIN finalDeploymentOrder = {Lookup(union, deploymentOrder[i]) : i \in 1..Len(deploymentOrder)}
        /\ \A r \in DOMAIN finalDeploymentOrder :
            finalDeploymentOrder[r] = WithRoot(deploymentOrder, union, r)
        /\ SumLen(finalDeploymentOrder, DOMAIN finalDeploymentOrder) = Len(deploymentOrder)

C7_Witness ==
    /\ bpc = "done"
    /\ Len(deploymentOrder) = 3
    /\ Range(deploymentOrder) \subseteq DOMAIN union
    /\ \E r \in DOMAIN finalDeploymentOrder :
        /\ Len(finalDeploymentOrder[r]) = 2
        /\ finalDeploymentOrder[r] = <<deploymentOrder[1], deploymentOrder[3]>>
        /\ deploymentOrder[1] # deploymentOrder[3]
        /\ Idx(deploymentOrder[3]) < Idx(deploymentOrder[1])

\* C8 (as claimed): the buckets are never returned when some service of the
\* order has no entry in the equivalence mapping.
C8_UnknownRootFails ==
    bpc = "done" => \A i \in 1..Len(deploymentOrder) : deploymentOrder[i] \in DOMAIN union

\* -------------------------------------------------------- local-deploy claims
\* The service names of a list of entries.
Names(list) == [i \in 1..Len(list) |-> list[i].ServiceName]

\* a is b with some entries left out.
RECURSIVE IsSubseq(_, _)
IsSubseq(a, b) ==
    IF a = <<>> THEN TRUE
    ELSE IF b = <<>> THEN FALSE
    ELSE IF Head(a) = Head(b) THEN IsSubseq(Tail(a), Tail(b))
    ELSE IsSubseq(a, Tail(b))

\* The services flagged force-deploy, and those flagged skip, by the
\* directive in effect for their name.
ForceDeployed == {k \in DOMAIN overrideMap : overrideMap[k].ForceDeploy}

Skipped == {k \in DOMAIN overrideMap : overrideMap[k].Skip}

\* C9: the final plan is the master plan with some entries left out: no
\* service absent from the master plan, none repeated, none out of order.
C9_FinalIsSubsequence ==
    rpc = "done" =>
        /\ IsSubseq(Names(finalList), Names(master.DeploymentOrder))
        /\ Range(Names(finalList)) \subseteq serviceMap

C9_Witness ==
    /\ rpc = "done"
    /\ ForceDeployed \ serviceMap # {}
    /\ Len(finalList) = 2
    /\ Len(master.DeploymentOrder) = 2
    /\ Idx(finalList[2].ServiceName) < Idx(finalList[1].ServiceName)

\* The root service and the force-deploy services, with all that the
\* adjacency list reaches from them.
Closure ==
    LET seeds == {local.ServiceName} \cup ForceDeployed
    IN  seeds \cup Reachable(master.DependencyAdjacencyList, seeds)

\* C10: with no skip in effect, the services of the final plan are exactly
\* the master-plan services in the closure of the root service and the
\* force-deploy services, each once.
C10_ExactClosure ==
    (rpc = "done" /\ Skipped = {}) =>
        /\ Range(Names(finalList)) = serviceMap \cap Closure
        /\ Len(finalList) = Cardinality(serviceMap \cap Closure)

C10_Witness ==
    /\ rpc = "done" /\ Skipped = {}
    /\ LET g == master.DependencyAdjacencyList
           rootSet == {local.ServiceName} \cup Reachable(g, {local.ServiceName})
       IN  /\ \E f \in ForceDeployed \ rootSet :
                 \E d \in Reachable(g, {f}) \ (rootSet \cup {f}) : d \in Range(Names(finalList))
           /\ Cardinality(rootSet) = 1
    /\ Len(finalList) = 3

\* The local config with the skip flag of every directive cleared.
ClearSkips(loc) ==
    [loc EXCEPT !.DependencyOverrides =
        [i \in 1..Len(loc.DependencyOverrides) |->
            [loc.DependencyOverrides[i] EXCEPT !.Skip = FALSE]]]

\* The entries of a list whose service is not in S.
RECURSIVE Without(_, _)
Without(list, S) ==
    IF list = <<>> THEN <<>>
    ELSE IF Head(list).ServiceName \in S THEN Without(Tail(list), S)
    ELSE <<Head(list)>> \o Without(Tail(list), S)

\* C11: skip removes exactly the flagged services and does not cascade: the
\* final plan is the plan resolved from the same inputs with every skip flag
\* cleared, less the entries of the skipped services; dependents and
\* dependencies of a skipped service stay, the root service included.
C11_SkipNoCascade ==
    rpc = "done" => finalList = Without(Resolve(master, ClearSkips(local)), Skipped)

C11_Witness ==
    /\ rpc = "done"
    /\ local.ServiceName \in Skipped
    /\ \E f, d \in Range(Names(finalList)) :
          /\ f # d
          /\ <<f, local.ServiceName>> \in Edges(master.DependencyAdjacencyList)
          /\ <<local.ServiceName, d>> \in Edges(master.DependencyAdjacencyList)

\* C12: when the root service is not an entry of the master plan, the run
\* ends in the fatal error at the root check and no plan is made, whatever
\* the overrides and the adjacency list hold; and the run fails there for no
\* other reason.
C12_RootNotInMasterFails ==
    LET missing == local.ServiceName \notin Range(Names(master.DeploymentOrder))
    IN  /\ missing =>
              /\ rpc \in {"root", "fatal"}
              /\ finalList = <<>> /\ deploySet = {}
              /\ rpc = "root" => (ENABLED RootMissing /\ ~ENABLED RootClosure)
        /\ rpc = "fatal" => missing

C12_Witness ==
    /\ rpc = "fatal"
    /\ local.ServiceName \in ForceDeployed
    /\ local.ServiceName \in GraphNodes(master.DependencyAdjacencyList)
    /\ master.DeploymentOrder # <<>>

\* names holds every service of the adjacency list, each dependency before
\* the services that depend on it.
IsTopologicalOrder(names, g) ==
    /\ GraphNodes(g) \subseteq Range(names)
    /\ \A e \in Edges(g) : Before(names, e[2], e[1])

\* C13: when the master plan is a topological order of the adjacency list,
\* every two services u, v of the final plan with u depending on v have v
\* before u, with or without skip and force-deploy overrides.
C13_FinalIsTopologicalOrder ==
    (rpc = "done" /\ IsTopologicalOrder(Names(master.DeploymentOrder), master.DependencyAdjacencyList))
        => \A e \in Edges(master.DependencyAdjacencyList) :
              (e[1] \in Range(Names(finalList)) /\ e[2] \in Range(Names(finalList)))
                  => Before(Names(finalList), e[2], e[1])

C13_Witness ==
    /\ rpc = "done"
    /\ IsTopologicalOrder(Names(master.DeploymentOrder), master.DependencyAdjacencyList)
    /\ Skipped # {} /\ ForceDeployed \ Skipped # {}
    /\ Len(finalList) = 2
    /\ <<finalList[2].ServiceName, finalList[1].ServiceName>>
            \in Edges(master.DependencyAdjacencyList)
    /\ Idx(finalList[2].ServiceName) < Idx(finalList[1].ServiceName)

\* C14: when the run ends with a final plan in which a service lists a
\* skipped service among its dependencies, a warning is handed to the caller
\* with the plan.
C14_WarningSurfaced ==
    (/\ rpc = "done"
     /\ \E i \in 1..Len(finalList) : Range(finalList[i].DependsOn) \cap Skipped # {})
        => warnings # <<>>

\* ------------------------------------------------- addTransitiveDeps claims
\* The entries the ranges of the calls in progress have still to yield.
RECURSIVE WalkLeft(_)
WalkLeft(stk) ==
    IF stk = <<>> THEN 0
    ELSE (Len(DependsOn(wgraph, Head(stk).service)) - Head(stk).i + 1) + WalkLeft(Tail(stk))

\* The length of the longest dependency list.
RECURSIVE LongestList(_)
LongestList(keys) ==
    IF keys = {} THEN 0
    ELSE LET k == CHOOSE x \in keys : TRUE
             rest == LongestList(keys \ {k})
         IN  IF Len(wgraph[k]) > rest THEN Len(wgraph[k]) ELSE rest

\* What is left of the walk: the services not yet in the set, weighted
\* above any one call, then the entries left to yield and the calls to return.
WalkMeasure ==
    Cardinality(Nodes \ wset) * (LongestList(DOMAIN wgraph) + 2)
        + WalkLeft(wstack) + Len(wstack)

\* C15: addTransitiveDeps, called as main calls it, terminates on every
\* adjacency list (cycles through the starting service and self-dependencies
\* included): every step brings the walk nearer its end and the walk is
\* never stuck before it; no more calls are in progress than there are
\* services; no service is visited twice; and on return the set holds
\* exactly what it held before and every service reachable from the
\* starting service.
C15_WalkTerminates ==
    /\ [][WalkMeasure' < WalkMeasure]_vars
    /\ [](wpc = "walk" => ENABLED WalkNext)
    /\ [](Len(wstack) <= Cardinality(Nodes))
    /\ [](\A i, j \in 1..Len(wvisits) : i # j => wvisits[i] # wvisits[j])
    /\ [](wpc = "returned" =>
            /\ wset = wset0 \cup Reachable(wgraph, {wstart})
            /\ wset = addTransitiveDeps(wstart, wgraph, wset0))

C15_Witness ==
    /\ wpc = "returned"
    /\ wstart \in Reachable(wgraph, {wstart})
    /\ \E n \in Nodes \ {wstart} : <<n, n>> \in Edges(wgraph)
    /\ Len(wvisits) = 2
    /\ wset0 = {wstart}

\* ------------------------------------------------------------- more of main
\* The override map with the force-deploy flag cleared for the services of S.
ClearForce(omap, S) ==
    [k \in DOMAIN omap |-> IF k \in S THEN [omap[k] EXCEPT !.ForceDeploy = FALSE] ELSE omap[k]]

\* The deploy-set after Step 1.
Rooted == addTransitiveDeps(local.ServiceName, master.DependencyAdjacencyList, {local.ServiceName})

\* C16: a force-deploy of a service the deploy-set already holds leaves the
\* deploy-set as it was; and at the end of the force-deploy range the
\* deploy-set is what the range gives in every order of the overrides, and
\* what it gives with the force-deploy flags of the root service and its
\* transitive dependencies cleared.
C16_ForceDeployIdempotent ==
    /\ [][\A k \in forcePending :
            (rpc = "force" /\ forcePending' = forcePending \ {k} /\ k \in deploySet)
                => deploySet' = deploySet]_vars
    /\ []((rpc = "force" /\ forcePending = {}) =>
            LET g == master.DependencyAdjacencyList
            IN  /\ \A order \in Perms(DOMAIN overrideMap) :
                      ForceLoop(overrideMap, order, g, Rooted) = deploySet
                /\ ForceLoop(ClearForce(overrideMap, Rooted), KeysInNameOrder(overrideMap),
                             g, Rooted) = deploySet)

C16_Witness ==
    /\ rpc = "force" /\ forcePending = {}
    /\ local.ServiceName \in ForceDeployed
    /\ \E f \in ForceDeployed \ Rooted :
          Reachable(master.DependencyAdjacencyList, {f}) \ (Rooted \cup {f}) # {}

\* C18: the skip step comes after the force-deploy step: a service whose
\* directive sets both force-deploy and skip is not in the final plan, while
\* the master-plan services its force-deploy reached, unless skipped
\* themselves, are.
C18_SkipAfterForce ==
    rpc = "done" =>
        \A k \in ForceDeployed \cap Skipped :
            /\ k \notin Range(Names(finalList))
            /\ (Reachable(master.DependencyAdjacencyList, {k}) \cap serviceMap) \ Skipped
                    \subseteq Range(Names(finalList))

C18_Witness ==
    /\ rpc = "done"
    /\ \E k \in (ForceDeployed \cap Skipped \cap serviceMap) \ Rooted :
          \E d \in Range(Names(finalList)) \ Rooted :
              <<k, d>> \in Edges(master.DependencyAdjacencyList)

\* The entry of the master plan for the service n.
MasterEntry(n) ==
    master.DeploymentOrder[CHOOSE i \in 1..Len(master.DeploymentOrder) :
                                master.DeploymentOrder[i].ServiceName = n]

\* C17: in the final plan each of branch, manifest and devLocal of a service
\* is the value its override gives when that value is not empty, and the
\* master plan's value otherwise; service name, repository and dependsOn are
\* the master plan's; and no step changes the master plan.
C17_FieldOverrides ==
    /\ [](rpc = "done" =>
            \A i \in 1..Len(finalList) :
                LET e == finalList[i]
                    m == MasterEntry(e.ServiceName)
                    has == e.ServiceName \in DOMAIN overrideMap
                    o == overrideMap[e.ServiceName]
                IN  /\ e.Branch = IF has /\ o.Branch # "" THEN o.Branch ELSE m.Branch
                    /\ e.Manifest = IF has /\ o.ManifestPath # "" THEN o.ManifestPath ELSE m.Manifest
                    /\ e.DevLocal = IF has /\ o.DevLocal # "" THEN o.DevLocal ELSE m.DevLocal
                    /\ e.Repository = m.Repository
                    /\ e.DependsOn = m.DependsOn)
    /\ [][master' = master]_vars

C17_Witness ==
    /\ rpc = "done"
    /\ \E i, j \in 1..Len(finalList) :
          /\ finalList[i].Branch = "feature" /\ finalList[i].Manifest = "manifest"
          /\ finalList[i].DevLocal = "./dev" /\ finalList[i].DependsOn # <<>>
          /\ finalList[j].Branch = "main" /\ finalList[j].Manifest = "local.yaml"
          /\ finalList[j].ServiceName \in DOMAIN overrideMap

\* The directives of a list that no later directive of the same name follows.
RECURSIVE LastOnly(_)
LastOnly(list) ==
    IF list = <<>> THEN <<>>
    ELSE IF \E j \in 2..Len(list) : list[j].ServiceName = Head(list).ServiceName
      THEN LastOnly(Tail(list))
      ELSE <<Head(list)>> \o LastOnly(Tail(list))

\* C19: of several directives for one service name only the last has effect:
\* the directive in effect for a name is the last of that name in the list,
\* and the final plan is the plan resolved with the earlier directives of each
\* name taken out of the list.
C19_LastDirectiveWins ==
    LET list == local.DependencyOverrides
    IN  /\ DOMAIN overrideMap = {list[i].ServiceName : i \in 1..Len(list)}
        /\ \A i \in 1..Len(list) :
              (\A j \in (i + 1)..Len(list) : list[j].ServiceName # list[i].ServiceName)
                  => overrideMap[list[i].ServiceName] = list[i]
        /\ rpc = "done" =>
              finalList = Resolve(master, [local EXCEPT !.DependencyOverrides = LastOnly(list)])

C19_Witness ==
    /\ rpc = "done"
    /\ Len(local.DependencyOverrides) = 2
    /\ LET first == local.DependencyOverrides[1]
           last == local.DependencyOverrides[2]
       IN  /\ first.ServiceName = last.ServiceName
           /\ first.Skip /\ ~last.Skip
           /\ ~first.ForceDeploy /\ last.ForceDeploy
           /\ first.Branch = "feature" /\ last.Branch = ""
           /\ first.DevLocal = "" /\ last.DevLocal = "./dev"
           /\ last.ServiceName \notin Rooted
           /\ \E i \in 1..Len(finalList) :
                 /\ finalList[i].ServiceName = last.ServiceName
                 /\ finalList[i].Branch = "main" /\ finalList[i].DevLocal = "./dev"

\* ------------------------------------------------------ more of UnionFind
\* The node reached from x by following parent until a node that is its own
\* parent, or for n steps.
RECURSIVE RootWithin(_, _, _)
RootWithin(p, x, n) ==
    IF n = 0 \/ p[x] = x THEN x ELSE RootWithin(p, p[x], n - 1)

\* The nodes met on the way.
RECURSIVE ChainWithin(_, _, _)
ChainWithin(p, x, n) ==
    IF n = 0 \/ p[x] = x THEN {x} ELSE {x} \cup ChainWithin(p, p[x], n - 1)

\* C20: after any unions and finds the parent pointers form a forest: from
\* every node the parents lead, in no more steps than there are nodes, to a
\* node that is its own parent. Find(x) returns that node, and Find of it
\* returns it again; after Find(x), x and every node that was on its chain
\* below the root have the root as parent, every other parent is as before,
\* and every node has the root it had.
C20_ForestAndCompression ==
    LET N == Cardinality(DOMAIN parent)
    IN  /\ \A x \in DOMAIN parent :
              /\ parent[x] \in DOMAIN parent
              /\ parent[RootWithin(parent, x, N)] = RootWithin(parent, x, N)
        /\ \A x \in DOMAIN parent :
              LET f == Find(parent, x)
                  r == RootWithin(parent, x, N)
                  chain == ChainWithin(parent, x, N)
              IN  /\ f.root = r
                  /\ Find(f.parent, f.root).root = f.root
                  /\ \A n \in chain : f.parent[n] = r
                  /\ \A n \in DOMAIN parent \ chain : f.parent[n] = parent[n]
                  /\ \A n \in DOMAIN parent :
                        RootWithin(f.parent, n, N) = RootWithin(parent, n, N)

C20_Witness ==
    /\ ufpc = "unions"
    /\ \E x \in DOMAIN parent :
          /\ parent[x] # x /\ parent[parent[x]] # parent[x]
          /\ Find(parent, x).parent # parent

\* ============================================================ the pipeline
\* topoSort, the union-find grouping and the bucket loop run one after the
\* other on one adjacency list: the sorter writes deployment-order.yml, the
\* grouping writes the union file, the bucket loop reads both.

\* The names the grouping collects (union-find.go, allServices): the keys of
\* the adjacency list and every entry of a dependency list.
allServices(g) == DOMAIN g \cup UNION {Range(g[k]) : k \in DOMAIN g}

\* UnionDeps making the union of a service with its first dependency only.
UnionDepsFirstOnly(p, service, deps) ==
    IF deps = <<>> THEN p ELSE Union(p, service, Head(deps))

\* for _, dep := range deps.DependsOn { uf.Union(service, dep) }
RECURSIVE UnionDeps(_, _, _)
UnionDeps(p, service, deps) ==
    IF deps = <<>> THEN p
    ELSE UnionDeps(Union(p, service, Head(deps)), service, Tail(deps))

\* for service, deps := range config.DependencyAdjacencyList { ... }, the
\* range yielding the keys in `order`.
RECURSIVE UnionAll(_, _, _)
UnionAll(p, g, order) ==
    IF order = <<>> THEN p
    ELSE UnionAll(UnionDeps(p, Head(order), g[Head(order)]), g, Tail(order))

\* union-find main up to the grouping: the names are collected, the
\* structure is initialised and every dependency is united with its service.
PipeUnions ==
    /\ tpc = "done" /\ ufpc = "idle"
    /\ \E order \in Perms(DOMAIN graph) :
        parent' = UnionAll(InitialiseUnionFind(allServices(graph)), graph, order)
    /\ unions' = Edges(graph)
    /\ ufpc' = "unions"
    /\ UNCHANGED <<groups, topoVars, bkVars, rsVars, walkVars>>

\* The sorter's main writes one entry per service of the order, the grouping
\* writes groups; deployment-order.go reads the entries' service names and
\* the map back, and starts its loop.
PipeReadFiles ==
    /\ tpc = "done" /\ ufpc = "grouped" /\ bpc = "idle"
    /\ deploymentOrder' = [i \in 1..Len(result) |-> result[i]]
    /\ union' = groups
    /\ finalDeploymentOrder' = EmptyMap
    /\ bidx' = 1
    /\ bpc' = "loop"
    /\ UNCHANGED <<topoVars, ufVars, rsVars, walkVars>>

PipeNext ==
    \/ TopoNext
    \/ PipeUnions
    \/ DoGetGroups
    \/ PipeReadFiles
    \/ BucketStep
    \/ BucketDone

SpecPipe == TopoInit /\ [][PipeNext]_vars

\* ---------------------------------------------------------- pipeline claims
\* C21: with the order from topoSort of an acyclic graph and the mapping from
\* the union-find grouping of the same graph, every service of the order has
\* an entry in the mapping, every dependency of a service of a bucket is in
\* that bucket before the service, and no dependency edge joins two buckets.
C21_BucketsSelfContained ==
    (bpc = "done" /\ ~HasCycle(graph)) =>
        /\ Range(deploymentOrder) \subseteq DOMAIN union
        /\ \A r \in DOMAIN finalDeploymentOrder :
              \A s \in Range(finalDeploymentOrder[r]) :
                  \A d \in Range(DependsOn(graph, s)) :
                      Before(finalDeploymentOrder[r], d, s)
        /\ \A e \in Edges(graph) :
              \A r1, r2 \in DOMAIN finalDeploymentOrder :
                  (e[1] \in Range(finalDeploymentOrder[r1]) /\ e[2] \in Range(finalDeploymentOrder[r2]))
                      => r1 = r2

C21_Witness ==
    /\ bpc = "done" /\ ~HasCycle(graph)
    /\ Cardinality(DOMAIN finalDeploymentOrder) = 2
    /\ \E r \in DOMAIN finalDeploymentOrder :
          /\ Len(finalDeploymentOrder[r]) = 2
          /\ Idx(finalDeploymentOrder[r][2]) < Idx(finalDeploymentOrder[r][1])
          /\ r # finalDeploymentOrder[r][1]

====
